---- MODULE Spec2Model ----
(***************************************************************************)
(* A model of two pieces of lobe-chat:                                     *)
(*   - DataExporterRepos.export (src/database/repositories/dataExporter):  *)
(*     a two-phase, bounded-concurrency walk of DATA_EXPORT_CONFIG;        *)
(*   - AdvancedActions.handleClear: the confirm-then-clear-everything flow.*)
(* The two are independent; Spec runs the exporter, ClearSpec the dialog.  *)
(***************************************************************************)
EXTENDS Integers, Sequences, FiniteSets, TLC

(***************************************************************************)
(* Bounds of the model.                                                    *)
(***************************************************************************)
\* export(concurrency) is called with a limit in 1..MaxConcurrency
MaxConcurrency == 2
\* how many things may be wrong with the environment of one export
\* (a table missing from the schema registry, a table whose query raises,
\* a table in which the owner has no rows, the connection being down)
MaxAnomalies == 1
\* how many times the user may press the clear button
MaxClicks == 2

(***************************************************************************)
(* DATA_EXPORT_CONFIG, as written in the source.  An optional key that the *)
(* source leaves out (userField, field, sourceField) is left out here too. *)
(***************************************************************************)
DATA_EXPORT_CONFIG ==
  [ baseTables |-> <<
      [table |-> "users", userField |-> "id"],
      [table |-> "userSettings", userField |-> "id"],
      [table |-> "userInstalledPlugins"],
      [table |-> "agents"],
      [table |-> "sessionGroups"],
      [table |-> "sessions"],
      [table |-> "topics"],
      [table |-> "threads"],
      [table |-> "messages"],
      [table |-> "files"],
      [table |-> "knowledgeBases"],
      [table |-> "agentsKnowledgeBases"],
      [table |-> "aiProviders"],
      [table |-> "aiModels"],
      [table |-> "asyncTasks"],
      [table |-> "chunks"],
      [table |-> "embeddings"] >>,
    relationTables |-> <<
      [table |-> "agentsToSessions",
       relations |-> << [field |-> "agentId", sourceField |-> "id", sourceTable |-> "agents"],
                        [sourceField |-> "sessionId", sourceTable |-> "sessions"] >>],
      [table |-> "agentsFiles",
       relations |-> << [sourceField |-> "agentId", sourceTable |-> "agents"],
                        [sourceField |-> "fileId", sourceTable |-> "files"] >>],
      [table |-> "filesToSessions",
       relations |-> << [field |-> "sessionId", sourceTable |-> "sessions"] >>],
      [table |-> "messagePlugins",
       relations |-> << [field |-> "id", sourceTable |-> "messages"] >>],
      [table |-> "messageTTS",
       relations |-> << [field |-> "id", sourceTable |-> "messages"] >>],
      [table |-> "messageTranslates",
       relations |-> << [field |-> "id", sourceTable |-> "messages"] >>],
      [table |-> "messagesFiles",
       relations |-> << [field |-> "messageId", sourceTable |-> "messages"],
                        [field |-> "fileId", sourceTable |-> "files"] >>],
      [table |-> "messageQueries",
       relations |-> << [field |-> "messageId", sourceTable |-> "messages"] >>],
      [table |-> "messageQueryChunks",
       relations |-> << [field |-> "messageId", sourceTable |-> "messages"],
                        [field |-> "chunkId", sourceTable |-> "chunks"] >>],
      [table |-> "messageChunks",
       relations |-> << [field |-> "messageId", sourceTable |-> "messages"],
                        [field |-> "chunkId", sourceTable |-> "chunks"] >>],
      [table |-> "knowledgeBaseFiles",
       relations |-> << [field |-> "knowledgeBaseId", sourceTable |-> "knowledgeBases"],
                        [field |-> "fileId", sourceTable |-> "files"] >>] >> ]

baseTables == DATA_EXPORT_CONFIG.baseTables

\* a list of relation tables that also names a base table
relationTables_withBase ==
  Append(DATA_EXPORT_CONFIG.relationTables,
         [table |-> "sessions",
          relations |-> << [field |-> "groupId", sourceTable |-> "sessionGroups"] >>])

relationTables == DATA_EXPORT_CONFIG.relationTables

BaseNames == { baseTables[i].table : i \in DOMAIN baseTables }
RelationNames == { relationTables[i].table : i \in DOMAIN relationTables }
Tables == BaseNames \cup RelationNames

\* the configuration entry of a table, and its position in its list
BaseIndex(t) == CHOOSE i \in DOMAIN baseTables : baseTables[i].table = t
RelationIndex(t) == CHOOSE i \in DOMAIN relationTables : relationTables[i].table = t
BaseConfig(t) == baseTables[BaseIndex(t)]
RelationConfig(t) == relationTables[RelationIndex(t)]

(***************************************************************************)
(* JavaScript values.  Reading a property an object does not have gives    *)
(* undefined; `a || b` gives b when a is undefined.                        *)
(***************************************************************************)
Undefined == "undefined"
Get(obj, key) == IF key \in DOMAIN obj THEN obj[key] ELSE Undefined
OrElse(a, b) == IF a = Undefined THEN b ELSE a

\* this.userId, the owner whose data is exported, and somebody else
UserId == "u1"
OtherUser == "u2"

(***************************************************************************)
(* The rows of the database.  Every table holds rows of the owner and rows *)
(* of another user; a relation table of two columns also holds a row that  *)
(* points at one row of the owner and one row of the other user.           *)
(***************************************************************************)
BaseOwnerRows(t) ==
  IF t \in {"users", "userSettings"} THEN << [id |-> UserId] >>
  ELSE IF t = "sessions"
    THEN << [id |-> "1", userId |-> UserId], [id |-> "2", userId |-> UserId] >>
    ELSE << [id |-> "1", userId |-> UserId] >>

BaseOtherRows(t) ==
  IF t \in {"users", "userSettings"} THEN << [id |-> OtherUser] >>
  ELSE << [id |-> "9", userId |-> OtherUser] >>

\* the columns of a relation table: the ones its relations name, and userId
RelationColumns(t) ==
  CASE t = "agentsToSessions" -> <<"agentId", "sessionId">>
    [] t = "agentsFiles" -> <<"agentId", "fileId">>
    [] OTHER -> [ i \in DOMAIN RelationConfig(t).relations |->
                    RelationConfig(t).relations[i].field ]

RelationRow(t, vals, user) ==
  LET cols == RelationColumns(t)
  IN [ f \in { cols[i] : i \in DOMAIN cols } \cup {"userId"} |->
         IF f = "userId" THEN user
         ELSE vals[CHOOSE i \in DOMAIN cols : cols[i] = f] ]

RelationOwnerRows(t) ==
  IF Len(RelationColumns(t)) = 1
  THEN << RelationRow(t, <<"1">>, UserId) >>
  ELSE << RelationRow(t, <<"1", "1">>, UserId), RelationRow(t, <<"1", "9">>, UserId) >>

RelationOtherRows(t) ==
  IF Len(RelationColumns(t)) = 1
  THEN << RelationRow(t, <<"9">>, OtherUser) >>
  ELSE << RelationRow(t, <<"9", "9">>, OtherUser) >>

OwnerRows(t) == IF t \in BaseNames THEN BaseOwnerRows(t) ELSE RelationOwnerRows(t)
OtherRows(t) == IF t \in BaseNames THEN BaseOtherRows(t) ELSE RelationOtherRows(t)


(***************************************************************************)
(* State.                                                                  *)
(***************************************************************************)
VARIABLES
  \* --- the environment of one export, fixed when it starts ---
  EXPORT_TABLES,   \* the schema registry: the table names it defines
  db,              \* table name -> its rows, in storage order
  faulty,          \* the tables whose findMany raises
  \* --- DataExporterRepos.export ---
  exportPc,        \* "idle", "base", "relation", "returned", "rejected"
  concurrency,     \* the argument of export()
  result,          \* the mapping export() builds and returns
  \* --- the pMap call of the current phase ---
  pmapState,       \* "idle", "pending", "resolved", "rejected"
  currentIndex,    \* how many times next() has taken from the iterator
  resolvingCount,  \* mappers started and not yet settled
  isRejected,
  isIterableDone,
  pmapResult,      \* index -> the value its mapper returned
  pc,              \* table name -> where its mapper stands
  ret,             \* table name -> the data a mapper returned without a query
  \* --- what has been observed of the storage layer ---
  issued,          \* table name -> the where of the findMany issued for it
  \* --- AdvancedActions ---
  clicks,          \* presses of the clear button so far
  dialog,          \* "closed", "open", "running", "failed"
  step,            \* the clear operation onOk is awaiting (1..6), 0 when none
  stores,          \* category -> whether the store still holds data
  trace            \* what the current confirmation has done, in order

exportVars == << EXPORT_TABLES, db, faulty, exportPc, concurrency,
                 result, pmapState, currentIndex, resolvingCount, isRejected,
                 isIterableDone, pmapResult, pc, ret, issued >>
clearVars == << clicks, dialog, step, stores, trace >>
vars == << exportVars, clearVars >>

Min(a, b) == IF a < b THEN a ELSE b
EmptyMap == [ k \in {} |-> <<>> ]

(***************************************************************************)
(* The storage layer: drizzle conditions and findMany.                      *)
(***************************************************************************)
eq(column, value) == [op |-> "eq", column |-> column, value |-> value]
inArray(column, values) == [op |-> "inArray", column |-> column, values |-> values]
and(conditions) == [op |-> "and", conditions |-> conditions]

\* a condition on tableObj[undefined]
IllFormedCondition(c) == c.column = Undefined
IllFormed(where) ==
  IF where.op = "and"
  THEN \E i \in DOMAIN where.conditions : IllFormedCondition(where.conditions[i])
  ELSE IllFormedCondition(where)

MatchesCondition(row, c) ==
  /\ ~IllFormedCondition(c)
  /\ IF c.op = "eq"
     THEN Get(row, c.column) = c.value
     ELSE Get(row, c.column) \in { c.values[i] : i \in DOMAIN c.values }

Matches(row, where) ==
  IF where.op = "and"
  THEN \A i \in DOMAIN where.conditions : MatchesCondition(row, where.conditions[i])
  ELSE MatchesCondition(row, where)

\* this.db.query[table].findMany({ where }) when it resolves: the rows that
\* match (no row matches a condition on an undefined column)
findMany(table, where) == SelectSeq(db[table], LAMBDA row : Matches(row, where))
\* whether it can resolve, and whether it can raise: a faulty table raises,
\* and a where with a condition on an undefined column may do either
findManyMayResolve(table, where) == table \notin faulty
findManyMayRaise(table, where) == table \in faulty \/ IllFormed(where)

(***************************************************************************)
(* DataExporterRepos                                                       *)
(***************************************************************************)
\* a removeUserId that strips nothing
removeUserId_kept(data) == data

removeUserId(data) ==
  [ i \in DOMAIN data |-> [ f \in DOMAIN data[i] \ {"userId"} |-> data[i][f] ] ]

\* a queryBaseTables that looks the table up inside its try
queryBaseTables_caught(config) ==
  IF config.table \notin EXPORT_TABLES
  THEN [kind |-> "return", data |-> <<>>]
  ELSE LET userField == OrElse(Get(config, "userField"), "userId")
       IN [kind |-> "query", where |-> eq(userField, UserId)]

\* queryBaseTables up to its await: throws (outside the try) when the registry
\* lacks the table, else issues findMany with the owner condition
queryBaseTables(config) ==
  IF config.table \notin EXPORT_TABLES
  THEN [kind |-> "throw"]
  ELSE LET userField == OrElse(Get(config, "userField"), "userId")
       IN [kind |-> "query", where |-> eq(userField, UserId)]

\* a catch that rethrows
onQueryError_rethrow(t) == [kind |-> "throw"]

\* the catch of queryBaseTables and of queryTable: log, return []
onQueryError(t) == [kind |-> "return", data |-> <<>>]

\* queryBaseTables after its await
queryBaseTablesResult(rows) == removeUserId(rows)

\* existingData[relation.sourceTable] || []
SourceData(existingData, sourceTable) ==
  IF sourceTable \in DOMAIN existingData THEN existingData[sourceTable] ELSE <<>>

\* the loop of queryTable over config.relations, from relation i on
RECURSIVE RelationLoop(_, _, _, _)
RelationLoop(config, existingData, i, conditions) ==
  IF i > Len(config.relations)
  THEN [kind |-> "conditions", conditions |-> conditions]
  ELSE LET relation == config.relations[i]
           sourceData == SourceData(existingData, relation.sourceTable)
           sourceField == OrElse(Get(relation, "sourceField"), "id")
           sourceIds == [ k \in DOMAIN sourceData |-> Get(sourceData[k], sourceField) ]
       IN IF Len(sourceData) = 0
          THEN [kind |-> "return", data |-> <<>>]
          ELSE RelationLoop(config, existingData, i + 1,
                 Append(conditions, inArray(Get(relation, "field"), sourceIds)))

\* queryTable up to its await
queryTable(config, existingData) ==
  IF config.table \notin EXPORT_TABLES
  THEN [kind |-> "throw"]
  ELSE LET loop == RelationLoop(config, existingData, 1, <<>>)
       IN IF loop.kind = "return" THEN loop
          ELSE LET conditions ==
                     IF "relations" \notin DOMAIN config /\ config.table # "users"
                     THEN Append(loop.conditions, eq("userId", UserId))
                     ELSE loop.conditions
                   where == IF Len(conditions) = 1 THEN conditions[1] ELSE and(conditions)
               IN [kind |-> "query", where |-> where]

\* a queryTable that strips userId from its rows as queryBaseTables does
queryTableResult_stripped(config, rows) == removeUserId(rows)

\* queryTable after its await
queryTableResult(config, rows) ==
  IF "relations" \in DOMAIN config THEN rows ELSE removeUserId(rows)

\* config.relations.every(relation => (result[relation.sourceTable] || []).length > 0)
allSourcesHaveData(config, res) ==
  \A i \in DOMAIN config.relations :
    Len(SourceData(res, config.relations[i].sourceTable)) > 0

\* a mapper of phase 2 that queries without looking at its sources
relationMapper_unchecked(config, res) ==
  IF config.table \notin EXPORT_TABLES
  THEN [kind |-> "throw"]
  ELSE LET conditions ==
             [ i \in DOMAIN config.relations |->
                 LET relation == config.relations[i]
                     sourceData == SourceData(res, relation.sourceTable)
                     sourceField == OrElse(Get(relation, "sourceField"), "id")
                 IN inArray(Get(relation, "field"),
                            [ k \in DOMAIN sourceData |-> Get(sourceData[k], sourceField) ]) ]
       IN [kind |-> "query",
           where |-> IF Len(conditions) = 1 THEN conditions[1] ELSE and(conditions)]

\* the mapper of phase 2 up to its await
relationMapper(config, res) ==
  IF ~allSourcesHaveData(config, res)
  THEN [kind |-> "return", data |-> <<>>]
  ELSE queryTable(config, res)

\* a forEach that starts from a fresh mapping
forEachStore_fresh(res, results) ==
  [ t \in { results[i].table : i \in DOMAIN results } |->
      results[CHOOSE i \in DOMAIN results : results[i].table = t].data ]

\* a forEach that stores a table only when it has rows
forEachStore_nonEmpty(res, results) ==
  LET written == { results[i].table : i \in { j \in DOMAIN results : results[j].data # <<>> } }
      at(t) == CHOOSE i \in DOMAIN results : results[i].table = t
  IN [ t \in DOMAIN res \cup written |->
         IF t \in written THEN results[at(t)].data ELSE res[t] ]

\* baseResults.forEach(({ table, data }) => { result[table] = data; })
forEachStore(res, results) ==
  LET written == { results[i].table : i \in DOMAIN results }
      last(t) == CHOOSE i \in DOMAIN results :
                   /\ results[i].table = t
                   /\ \A j \in DOMAIN results : results[j].table = t => j <= i
  IN [ t \in DOMAIN res \cup written |->
         IF t \in written THEN results[last(t)].data ELSE res[t] ]


(***************************************************************************)
(* The environment of an export.                                           *)
(***************************************************************************)
\* the tables an anomaly may hit: two base tables that are sources, a base
\* table keyed by id, a relation table of two relations and one of one
AnomalyTables == {"users", "agents", "sessions", "agentsToSessions", "filesToSessions"}
Anomalies ==
  (AnomalyTables \X {"missing", "faulty", "empty"}) \cup { <<"*", "down">> }

Categories == <<"sessions", "plugins", "topics", "files", "messages", "sessionGroups">>

ExportIdle ==
  /\ exportPc = "idle"
  /\ concurrency = 0
  /\ result = EmptyMap
  /\ pmapState = "idle"
  /\ currentIndex = 0
  /\ resolvingCount = 0
  /\ isRejected = FALSE
  /\ isIterableDone = FALSE
  /\ pmapResult = EmptyMap
  /\ pc = [ t \in Tables |-> "pending" ]
  /\ ret = EmptyMap
  /\ issued = EmptyMap

ClearIdle ==
  /\ clicks = 0
  /\ dialog = "closed"
  /\ step = 0
  /\ trace = <<>>

\* a DataExporterRepos has been constructed over some database
Init ==
  /\ \E A \in SUBSET Anomalies :
       /\ Cardinality(A) <= MaxAnomalies
       /\ EXPORT_TABLES = { t \in Tables : <<t, "missing">> \notin A }
       /\ faulty = { t \in Tables : <<t, "faulty">> \in A \/ <<"*", "down">> \in A }
       /\ db = [ t \in Tables |->
                   IF <<t, "empty">> \in A THEN OtherRows(t)
                   ELSE OwnerRows(t) \o OtherRows(t) ]
  /\ ExportIdle
  /\ ClearIdle
  /\ stores = [ i \in DOMAIN Categories |-> TRUE ]

(***************************************************************************)
(* pMap(iterable, mapper, { concurrency }), stopOnError left at its default.*)
(***************************************************************************)
\* an initial loop that runs once too often
pMapLaunchCount_extra(n, c) == Min(n, c + 1)

\* the mappers the initial loop of pMap launches: one next() per unit of
\* concurrency, stopping when the iterator is exhausted
pMapLaunchCount(n, c) == Min(n, c)

\* a pMap that resolves as soon as the iterator is exhausted
pMapAllSettled_eager(count) == TRUE

\* a pMap that never resolves
pMapAllSettled_never(count) == FALSE

\* whether pMap resolves once the iterator is exhausted
pMapAllSettled(count) == count = 0

\* the tables of the phase export() is in, in the order of the configuration
PhaseTables ==
  IF exportPc = "base" THEN [ i \in DOMAIN baseTables |-> baseTables[i].table ]
  ELSE IF exportPc = "relation"
    THEN [ i \in DOMAIN relationTables |-> relationTables[i].table ]
    ELSE <<>>

IndexOf(t) == IF t \in BaseNames THEN BaseIndex(t) ELSE RelationIndex(t)

\* pMap is called on `items` (table names) with the limit c
pMapStart(items, c) ==
  LET n == Len(items)
      k == pMapLaunchCount(n, c)
  IN /\ pmapState' = IF n = 0 THEN "resolved" ELSE "pending"
     /\ currentIndex' = IF c > n THEN n + 1 ELSE c
     /\ isIterableDone' = (c > n)
     /\ resolvingCount' = k
     /\ isRejected' = FALSE
     /\ pmapResult' = EmptyMap
     /\ pc' = [ t \in Tables |->
                  IF \E i \in 1..k : items[i] = t THEN "launched" ELSE pc[t] ]

\* a mapper has returned `data` for table t: result[index] = value;
\* resolvingCount--; next()
pMapSettle(t, data) ==
  LET items == PhaseTables
      n == Len(items)
      count == resolvingCount - 1
  IN /\ pmapResult' = [ i \in DOMAIN pmapResult \cup {IndexOf(t)} |->
                          IF i = IndexOf(t) THEN [data |-> data, table |-> t]
                          ELSE pmapResult[i] ]
     /\ IF isRejected
        THEN /\ resolvingCount' = count
             /\ pc' = [pc EXCEPT ![t] = "settled"]
             /\ UNCHANGED << currentIndex, isIterableDone, pmapState >>
        ELSE IF currentIndex >= n
        THEN /\ resolvingCount' = count
             /\ currentIndex' = currentIndex + 1
             /\ isIterableDone' = TRUE
             /\ pmapState' = IF pMapAllSettled(count) THEN "resolved" ELSE pmapState
             /\ pc' = [pc EXCEPT ![t] = "settled"]
        ELSE /\ resolvingCount' = count + 1
             /\ currentIndex' = currentIndex + 1
             /\ pc' = [pc EXCEPT ![t] = "settled", ![items[currentIndex + 1]] = "launched"]
             /\ UNCHANGED << isIterableDone, pmapState >>
     /\ UNCHANGED isRejected

(***************************************************************************)
(* export(concurrency)                                                     *)
(***************************************************************************)
envVars == << EXPORT_TABLES, db, faulty >>

\* export() is called: phase 1 starts
Export(c) ==
  /\ exportPc = "idle"
  /\ exportPc' = "base"
  /\ concurrency' = c
  /\ result' = EmptyMap
  /\ pMapStart([ i \in DOMAIN baseTables |-> baseTables[i].table ], c)
  /\ UNCHANGED << envVars, ret, issued, clearVars >>

\* a launched mapper finds pMap rejected and never calls its mapper
MapperAbandoned(t) ==
  /\ pc[t] = "launched"
  /\ isRejected
  /\ pc' = [pc EXCEPT ![t] = "abandoned"]
  /\ UNCHANGED << envVars, exportPc, concurrency, result, pmapState, currentIndex,
                  resolvingCount, isRejected, isIterableDone, pmapResult, ret,
                  issued, clearVars >>

\* what a mapper does up to its first await, given what it decided
MapperStep(t, outcome) ==
  /\ pc' = [pc EXCEPT ![t] = CASE outcome.kind = "throw" -> "threw"
                                [] outcome.kind = "return" -> "returned"
                                [] outcome.kind = "query" -> "inflight"]
  /\ issued' = IF outcome.kind = "query"
               THEN [ x \in DOMAIN issued \cup {t} |->
                        IF x = t THEN outcome.where ELSE issued[x] ]
               ELSE issued
  /\ ret' = IF outcome.kind = "return"
            THEN [ x \in DOMAIN ret \cup {t} |-> IF x = t THEN outcome.data ELSE ret[x] ]
            ELSE ret
  /\ UNCHANGED << envVars, exportPc, concurrency, result, pmapState, currentIndex,
                  resolvingCount, isRejected, isIterableDone, pmapResult, clearVars >>

\* phase 1: async (config) => ({ data: await this.queryBaseTables(config), ... })
BaseMapper(t) ==
  /\ exportPc \in {"base", "rejected"}
  /\ t \in BaseNames
  /\ pc[t] = "launched"
  /\ ~isRejected
  /\ MapperStep(t, queryBaseTables(BaseConfig(t)))

\* phase 2: the source check, then queryTable
RelationMapper(t) ==
  /\ exportPc \in {"relation", "rejected"}
  /\ t \in RelationNames
  /\ pc[t] = "launched"
  /\ ~isRejected
  /\ MapperStep(t, relationMapper(RelationConfig(t), result))

\* The completion of a query is an event of the event loop: it is handled only
\* when no continuation (a launched mapper, a returned or thrown mapper, the
\* continuation of export() after its pMap) is waiting to run.
MicrotasksDrained ==
  /\ \A x \in Tables : pc[x] \notin {"launched", "returned", "threw"}
  /\ ~(exportPc \in {"base", "relation"} /\ pmapState \in {"resolved", "rejected"})

\* the data a mapper returns when its findMany resolves with rows
MapperData(t, rows) ==
  IF t \in BaseNames THEN queryBaseTablesResult(rows)
  ELSE queryTableResult(RelationConfig(t), rows)

\* findMany resolves: the mapper returns its rows and pMap moves on
FindManyResolves(t) ==
  /\ pc[t] = "inflight"
  /\ MicrotasksDrained
  /\ findManyMayResolve(t, issued[t])
  /\ pMapSettle(t, MapperData(t, findMany(t, issued[t])))
  /\ UNCHANGED << envVars, exportPc, concurrency, result, ret, issued,
                  clearVars >>

\* findMany raises: the catch returns [] and pMap moves on
FindManyRaises(t) ==
  /\ pc[t] = "inflight"
  /\ MicrotasksDrained
  /\ findManyMayRaise(t, issued[t])
  /\ LET outcome == onQueryError(t)
     IN IF outcome.kind = "return"
        THEN pMapSettle(t, outcome.data)
        ELSE /\ pc' = [pc EXCEPT ![t] = "threw"]
             /\ UNCHANGED << pmapState, currentIndex, resolvingCount, isRejected,
                             isIterableDone, pmapResult >>
  /\ UNCHANGED << envVars, exportPc, concurrency, result, ret, issued, clearVars >>

\* a mapper that returned without a query is settled by pMap
MapperReturns(t) ==
  /\ pc[t] = "returned"
  /\ pMapSettle(t, ret[t])
  /\ UNCHANGED << envVars, exportPc, concurrency, result, ret, issued,
                  clearVars >>

\* a mapper that threw: pMap's catch sets isRejected and rejects
MapperThrows(t) ==
  /\ pc[t] = "threw"
  /\ pc' = [pc EXCEPT ![t] = "caught"]
  /\ isRejected' = TRUE
  /\ pmapState' = IF pmapState = "pending" THEN "rejected" ELSE pmapState
  /\ UNCHANGED << envVars, exportPc, concurrency, result, currentIndex,
                  resolvingCount, isIterableDone, pmapResult, ret, issued,
                  clearVars >>

\* the pMap of phase 1 resolved: store its results, start phase 2
BasePhaseDone ==
  /\ exportPc = "base"
  /\ pmapState = "resolved"
  /\ result' = forEachStore(result, pmapResult)
  /\ exportPc' = "relation"
  /\ pMapStart([ i \in DOMAIN relationTables |-> relationTables[i].table ], concurrency)
  /\ UNCHANGED << envVars, concurrency, ret, issued, clearVars >>

\* the pMap of phase 2 resolved: store its results and return
RelationPhaseDone ==
  /\ exportPc = "relation"
  /\ pmapState = "resolved"
  /\ result' = forEachStore(result, pmapResult)
  /\ exportPc' = "returned"
  /\ UNCHANGED << envVars, concurrency, pmapState, currentIndex, resolvingCount,
                  isRejected, isIterableDone, pmapResult, pc, ret, issued,
                  clearVars >>

\* the awaited pMap rejected: export() rejects with the mapper's error
ExportRejects ==
  /\ exportPc \in {"base", "relation"}
  /\ pmapState = "rejected"
  /\ exportPc' = "rejected"
  /\ UNCHANGED << envVars, concurrency, result, pmapState, currentIndex,
                  resolvingCount, isRejected, isIterableDone, pmapResult, pc, ret,
                  issued, clearVars >>

Next ==
  \/ \E c \in 1..MaxConcurrency : Export(c)
  \/ \E t \in Tables : MapperAbandoned(t)
  \/ \E t \in Tables : BaseMapper(t)
  \/ \E t \in Tables : RelationMapper(t)
  \/ \E t \in Tables : FindManyResolves(t)
  \/ \E t \in Tables : FindManyRaises(t)
  \/ \E t \in Tables : MapperReturns(t)
  \/ \E t \in Tables : MapperThrows(t)
  \/ BasePhaseDone
  \/ RelationPhaseDone
  \/ ExportRejects

Spec == Init /\ [][Next]_vars

\* the steps of a running export: continuations the event loop runs and
\* completions of the queries in flight
Running ==
  \/ \E t \in Tables : MapperAbandoned(t)
  \/ \E t \in Tables : BaseMapper(t)
  \/ \E t \in Tables : RelationMapper(t)
  \/ \E t \in Tables : FindManyResolves(t)
  \/ \E t \in Tables : FindManyRaises(t)
  \/ \E t \in Tables : MapperReturns(t)
  \/ \E t \in Tables : MapperThrows(t)
  \/ BasePhaseDone
  \/ RelationPhaseDone
  \/ ExportRejects

\* the environments whose anomalies hit one source table and one relation
\* table that depends on it (or the whole connection)
FairTables == {"sessions", "agentsToSessions"}
FairInit ==
  /\ Init
  /\ Tables \ EXPORT_TABLES \subseteq FairTables
  /\ faulty = Tables \/ faulty \subseteq FairTables
  /\ \A t \in Tables \ FairTables : db[t] = OwnerRows(t) \o OtherRows(t)

\* export() under an event loop that runs every ready continuation and a
\* database that settles every query
FairSpec == FairInit /\ [][Next]_vars /\ WF_vars(Running)


(***************************************************************************)
(* AdvancedActions: the clear button, its confirmation and onOk.           *)
(***************************************************************************)
\* an onOk that clears the topics before the plugins
onOk_swapped == << "clearSessions", "clearTopics", "removeAllPlugins", "removeAllFiles",
                   "clearAllMessages", "clearSessionGroups" >>

\* the awaits of onOk, in order; Categories[k] is the store operation k clears
onOk == << "clearSessions", "removeAllPlugins", "clearTopics", "removeAllFiles",
           "clearAllMessages", "clearSessionGroups" >>

\* where onOk goes after operation k resolved: the next await, or 0 when
\* none is left and message.success is called
AfterResolve(k) == IF k < Len(onOk) THEN k + 1 ELSE 0

\* an onOk that catches the failure of an operation and goes on
AfterReject_continue(k) == AfterResolve(k)

\* where onOk goes after operation k rejected: nowhere, there is no try/catch
AfterReject(k) == 0

Event(kind, k) == [ev |-> kind, op |-> onOk[k]]
Success == [ev |-> "success", op |-> "message.success"]

\* a store with the exporter idle over a sound database
ClearInit ==
  /\ EXPORT_TABLES = Tables
  /\ faulty = {}
  /\ db = [ t \in Tables |-> OwnerRows(t) \o OtherRows(t) ]
  /\ ExportIdle
  /\ ClearIdle
  /\ stores \in [ DOMAIN Categories -> BOOLEAN ]

\* a handleClear that runs onOk without asking
HandleClear_direct ==
  /\ dialog = "closed"
  /\ clicks < MaxClicks
  /\ clicks' = clicks + 1
  /\ dialog' = "running"
  /\ step' = 1
  /\ trace' = << Event("call", 1) >>
  /\ UNCHANGED << stores, exportVars >>

\* the button is pressed: handleClear opens the confirmation
HandleClear ==
  /\ dialog = "closed"
  /\ clicks < MaxClicks
  /\ clicks' = clicks + 1
  /\ dialog' = "open"
  /\ step' = 0
  /\ trace' = <<>>
  /\ UNCHANGED << stores, exportVars >>

\* the confirmation is dismissed (also after onOk failed)
Cancel ==
  /\ dialog \in {"open", "failed"}
  /\ dialog' = "closed"
  /\ UNCHANGED << clicks, step, stores, trace, exportVars >>

\* the user confirms: onOk starts and awaits its first operation
Confirm ==
  /\ dialog = "open"
  /\ dialog' = "running"
  /\ step' = 1
  /\ trace' = Append(trace, Event("call", 1))
  /\ UNCHANGED << clicks, stores, exportVars >>

\* the awaited operation resolves: its store is empty, onOk goes on
ClearResolves ==
  /\ dialog = "running"
  /\ step \in DOMAIN onOk
  /\ LET k == step
         to == AfterResolve(k)
     IN /\ stores' = [stores EXCEPT ![k] = FALSE]
        /\ step' = to
        /\ trace' = trace \o << Event("done", k) >> \o
                      (IF to = 0 THEN << Success >> ELSE << Event("call", to) >>)
        /\ dialog' = IF to = 0 THEN "closed" ELSE "running"
  /\ UNCHANGED << clicks, exportVars >>

\* the awaited operation rejects, having cleared its store or not
ClearRejects ==
  /\ dialog = "running"
  /\ step \in DOMAIN onOk
  /\ LET k == step
         to == AfterReject(k)
     IN /\ \E left \in {stores[k], FALSE} : stores' = [stores EXCEPT ![k] = left]
        /\ step' = to
        /\ trace' = trace \o << Event("fail", k) >> \o
                      (IF to = 0 THEN <<>> ELSE << Event("call", to) >>)
        /\ dialog' = IF to = 0 THEN "failed" ELSE "running"
  /\ UNCHANGED << clicks, exportVars >>

ClearNext ==
  \/ HandleClear
  \/ Cancel
  \/ Confirm
  \/ ClearResolves
  \/ ClearRejects

ClearSpec == ClearInit /\ [][ClearNext]_vars


(***************************************************************************)
(* Properties of export().                                                 *)
(***************************************************************************)
\* the tables the configuration names and the schema registry lacks
MissingTables == Tables \ EXPORT_TABLES

\* the field a base table is filtered by: userField, by default userId
OwnerField(t) == OrElse(Get(BaseConfig(t), "userField"), "userId")

\* C1 as stated: a table missing from the schema registry costs only its own
\* entry: export() does not reject, and returns the empty set for that table.
C1_MissingTableIsCaught ==
  \A t \in MissingTables :
    /\ exportPc # "rejected"
    /\ exportPc = "returned" => (t \in DOMAIN result /\ result[t] = <<>>)

\* What holds in every state around a missing table definition.
C1_MissingTableState ==
  \* no query is ever issued for a table the registry lacks
  /\ \A t \in MissingTables : t \notin DOMAIN issued
  \* the handler of a missing table throws whenever it consults the registry
  /\ \A t \in BaseNames \cap MissingTables :
       pc[t] \in {"pending", "launched", "abandoned", "threw", "caught"}
  /\ \A t \in Tables :
       pc[t] \in {"threw", "caught"} => (t \in MissingTables /\ exportPc # "returned")
  \* the error is not caught per table: it rejects pMap and with it export()
  /\ \A t \in Tables :
       pc[t] = "caught" =>
         (isRejected /\ pmapState = "rejected" /\ exportPc \in {"base", "relation", "rejected"})
  /\ exportPc = "rejected" => \E t \in MissingTables : pc[t] = "caught"
  \* export() returns only if no handler consulted the registry for a missing
  \* table: no base table is missing, and a missing relation table was skipped
  /\ exportPc = "returned" =>
       \A t \in MissingTables :
         t \in RelationNames /\ ~allSourcesHaveData(RelationConfig(t), result)

\* C1 (amended): the handler of a table missing from the schema registry throws
\* outside its try; the error is not caught at the table level, so pMap rejects
\* and export() rejects without a result.  No query is issued for the missing
\* table, and once pMap has rejected no mapper that was not yet launched is
\* ever launched: the tables behind it are never queried.  export() returns
\* only when every missing table is a relation table skipped for an empty source.
C1_MissingTableRejects ==
  /\ []C1_MissingTableState
  /\ [][isRejected => \A t \in Tables : pc[t] = "pending" => pc'[t] = "pending"]_vars

\* C1 witness: agents is missing; the tables before it were queried, its own
\* handler threw, export() rejected and the tables behind it were never started.
C1_Witness ==
  /\ "agents" \in MissingTables
  /\ exportPc = "rejected"
  /\ pc["agents"] = "caught"
  /\ pc["users"] = "settled" /\ "users" \in DOMAIN issued
  /\ pc["sessions"] = "pending"
  /\ result = EmptyMap

\* C2: when export() returns, the result has a key for every base table and
\* every relation table, whatever happened to each; a table whose query raised,
\* returned no row or was skipped maps to the empty sequence.
C2_EveryTableHasKey ==
  exportPc = "returned" =>
    /\ DOMAIN result = BaseNames \cup RelationNames
    /\ \A t \in Tables :
         (\/ t \notin DOMAIN issued
          \/ t \in faulty
          \/ findMany(t, issued[t]) = <<>>) => result[t] = <<>>

\* C2 witness: export() returned after a base query raised, a relation table
\* was skipped, a relation query returned no row and other queries returned rows.
C2_Witness ==
  /\ exportPc = "returned"
  /\ \E t \in BaseNames \cap faulty : t \in DOMAIN issued /\ result[t] = <<>>
  /\ \E t \in RelationNames : t \notin DOMAIN issued /\ result[t] = <<>>
  /\ \E t \in RelationNames : t \in DOMAIN issued /\ result[t] = <<>>
  /\ \E t \in BaseNames : Len(result[t]) > 0
  /\ \E t \in RelationNames : Len(result[t]) > 0

\* C3 as stated: no exported row of a base table has the field configured as
\* that table's owner field (id for users and userSettings, else userId).
C3_OwnerFieldAbsent ==
  \A t \in BaseNames \cap DOMAIN result :
    \A i \in DOMAIN result[t] : OwnerField(t) \notin DOMAIN result[t][i]

\* the rows of the owner in a base table, as stored
OwnedRows(t) == SelectSeq(db[t], LAMBDA row : Get(row, OwnerField(t)) = UserId)

\* C3 (amended): every exported row of a base table lacks the field named
\* userId and keeps every other field of the stored row; so the configured
\* owner field is absent where it is userId, while the rows of users and
\* userSettings, whose owner field is id, keep their id.
C3_UserIdAbsent ==
  \A t \in BaseNames \cap DOMAIN result :
    \/ result[t] = <<>>
    \/ /\ Len(result[t]) = Len(OwnedRows(t))
       /\ \A i \in DOMAIN result[t] :
            /\ "userId" \notin DOMAIN result[t][i]
            /\ DOMAIN result[t][i] = DOMAIN OwnedRows(t)[i] \ {"userId"}
            /\ \A f \in DOMAIN result[t][i] : result[t][i][f] = OwnedRows(t)[i][f]
            /\ OwnerField(t) = "id" => result[t][i]["id"] = UserId

\* C3 witness: the rows of users (owner field id) and of sessions (owner field
\* userId) have been exported.
C3_Witness ==
  /\ {"users", "sessions"} \subseteq DOMAIN result
  /\ Len(result["users"]) = 1 /\ "id" \in DOMAIN result["users"][1]
  /\ Len(result["sessions"]) = 2 /\ "userId" \in DOMAIN db["sessions"][1]

\* C4 as stated: when the connection is down, so that every query raises,
\* export() fails instead of returning a mapping of empty tables.
C4_ConnectionErrorPropagates ==
  faulty = Tables => exportPc # "returned"

\* C4 (amended): when the connection is down, so that every query raises, each
\* raise is caught by the handler of its table like any query error: no issued
\* query makes its handler throw, pMap rejects only on a table missing from the
\* schema registry, and otherwise export() returns a mapping in which every
\* configured table is empty.
C4_ConnectionErrorSwallowed ==
  faulty = Tables =>
    /\ \A t \in DOMAIN issued : pc[t] \in {"inflight", "settled"}
    /\ MissingTables = {} => (~isRejected /\ exportPc # "rejected")
    /\ exportPc = "rejected" => \E t \in MissingTables : pc[t] = "caught"
    /\ exportPc = "returned" =>
         (DOMAIN result = Tables /\ \A t \in Tables : result[t] = <<>>)

\* C4 witness: every base query was issued and raised, and export() returned.
C4_Witness ==
  /\ faulty = Tables
  /\ exportPc = "returned"
  /\ BaseNames \subseteq DOMAIN issued
  /\ \A t \in Tables : result[t] = <<>>


\* C5: a relation table one of whose source tables has an empty exported set
\* is exported as the empty set, and no query is ever issued for it.
C5_EmptySourceSkips ==
  \A r \in RelationNames :
    ~allSourcesHaveData(RelationConfig(r), result) =>
      /\ r \notin DOMAIN issued
      /\ pc[r] \notin {"inflight", "threw", "caught"}
      /\ (BaseNames \subseteq DOMAIN result /\ RelationIndex(r) \in DOMAIN pmapResult)
           => pmapResult[RelationIndex(r)].data = <<>>
      /\ exportPc = "returned" => result[r] = <<>>

\* C5 witness: the owner has agents but no session; agentsToSessions, which
\* holds rows, was exported as the empty set without a query.
C5_Witness ==
  /\ exportPc = "returned"
  /\ result["sessions"] = <<>>
  /\ Len(result["agents"]) > 0
  /\ Len(db["agentsToSessions"]) > 1
  /\ "agentsToSessions" \notin DOMAIN issued
  /\ result["agentsToSessions"] = <<>>

\* C6: whatever the limit and the order of completion, no mapper of a relation
\* table starts (and so no relation query is issued) before the query of every
\* base table has resolved and its result has been stored.
C6_PhasesDoNotOverlap ==
  \A r \in RelationNames :
    (pc[r] # "pending" \/ r \in DOMAIN issued) =>
      \A b \in BaseNames : pc[b] = "settled" /\ b \in DOMAIN result

\* C6 witness: two relation queries are in flight at once.
C6_Witness ==
  /\ exportPc = "relation"
  /\ concurrency >= 2
  /\ Cardinality({ r \in RelationNames : pc[r] = "inflight" }) >= 2
  /\ \E b \in BaseNames : b \in faulty \/ Len(result[b]) > 0

\* C7: a query that raises leaves its table empty and nothing else: pMap does
\* not reject on it (it rejects only on a table missing from the schema
\* registry), export() returns, every other base table is still queried
\* (and every relation table whose sources have data), and the rows of the
\* queries that succeeded are stored as their handlers returned them.
C7_QueryErrorIsolated ==
  /\ isRejected => \E t \in MissingTables : pc[t] = "caught"
  /\ \A t \in faulty \cap DOMAIN issued : pc[t] \notin {"threw", "caught"}
  /\ exportPc = "returned" =>
       /\ \A t \in faulty \cap DOMAIN issued : result[t] = <<>>
       /\ BaseNames \subseteq DOMAIN issued
       /\ \A r \in RelationNames :
            allSourcesHaveData(RelationConfig(r), result) => r \in DOMAIN issued
       /\ \A t \in DOMAIN issued \ faulty :
            ~IllFormed(issued[t]) => result[t] = MapperData(t, findMany(t, issued[t]))

\* C7 witness: the query of sessions raised; export() returned with sessions
\* empty and the rows of the tables queried before and after it.
C7_Witness ==
  /\ faulty = {"sessions"}
  /\ exportPc = "returned"
  /\ "sessions" \in DOMAIN issued /\ result["sessions"] = <<>>
  /\ Len(result["agents"]) = 1 /\ Len(result["messages"]) = 1
  /\ Len(result["messagePlugins"]) = 1

\* C10: at every moment the number of queries issued and not yet resolved is
\* at most the limit passed to export(), in both phases.
C10_ConcurrencyBound ==
  Cardinality({ t \in Tables : pc[t] = "inflight" }) <= concurrency

\* C10 witness: in phase 2, as many queries in flight as the limit allows
\* while relation tables are still waiting for a slot.
C10_Witness ==
  /\ concurrency >= 2
  /\ exportPc = "relation"
  /\ Cardinality({ t \in Tables : pc[t] = "inflight" }) = concurrency
  /\ \E t \in RelationNames : pc[t] = "pending"

(***************************************************************************)
(* Properties of the clear flow.                                           *)
(***************************************************************************)
\* the documented order: sessions, plugins, topics, files, messages, session
\* groups, each called after the one before it is done, then the notification
FullClearTrace ==
  << [ev |-> "call", op |-> "clearSessions"],      [ev |-> "done", op |-> "clearSessions"],
     [ev |-> "call", op |-> "removeAllPlugins"],   [ev |-> "done", op |-> "removeAllPlugins"],
     [ev |-> "call", op |-> "clearTopics"],        [ev |-> "done", op |-> "clearTopics"],
     [ev |-> "call", op |-> "removeAllFiles"],     [ev |-> "done", op |-> "removeAllFiles"],
     [ev |-> "call", op |-> "clearAllMessages"],   [ev |-> "done", op |-> "clearAllMessages"],
     [ev |-> "call", op |-> "clearSessionGroups"], [ev |-> "done", op |-> "clearSessionGroups"],
     [ev |-> "success", op |-> "message.success"] >>

IsPrefix(a, b) == Len(a) <= Len(b) /\ a = SubSeq(b, 1, Len(a))
Failed(tr) == \E i \in DOMAIN tr : tr[i].ev = "fail"

\* C8: after the user confirms, as long as no operation fails, the six clear
\* operations are called in the documented order, each once and each after
\* the one before it is done, and the notification comes after the sixth.
C8_ClearOrder ==
  /\ ~Failed(trace) => IsPrefix(trace, FullClearTrace)
  /\ (trace # <<>> /\ trace[Len(trace)].ev = "success") => trace = FullClearTrace
  /\ (dialog = "running" /\ ~Failed(trace)) =>
       (Len(trace) = 2 * step - 1 /\ trace[Len(trace)] = [ev |-> "call", op |-> onOk[step]])

\* C8 witness: a confirmation ran to its notification and emptied every store.
C8_Witness ==
  /\ dialog = "closed"
  /\ trace = FullClearTrace
  /\ \A i \in DOMAIN stores : ~stores[i]

\* C9: when clear operation k fails, it is the last thing the confirmation
\* does: operations k+1..6 are not called, no notification is shown, onOk ends
\* in failure, and the stores of operations 1..k-1 stay cleared.
C9_ClearStopsAtFailure ==
  Failed(trace) =>
    /\ dialog \in {"failed", "closed"}
    /\ step = 0
    /\ \E k \in DOMAIN onOk :
         /\ Len(trace) = 2 * k
         /\ SubSeq(trace, 1, 2 * k - 1) = SubSeq(FullClearTrace, 1, 2 * k - 1)
         /\ trace[2 * k] = [ev |-> "fail", op |-> FullClearTrace[2 * k - 1].op]
         /\ \A j \in 1..(k - 1) : ~stores[j]

\* C9 witness: the third operation failed after the first two had cleared their
\* stores; the stores of the last three still hold their data.
C9_Witness ==
  /\ dialog = "failed"
  /\ Len(trace) = 6
  /\ trace[6] = [ev |-> "fail", op |-> "clearTopics"]
  /\ ~stores[1] /\ ~stores[2]
  /\ stores[4] /\ stores[5] /\ stores[6]


(***************************************************************************)
(* Properties of the filter of a relation query.                           *)
(***************************************************************************)
\* the conditions of a where, in the order they were pushed
Conditions(where) == IF where.op = "and" THEN where.conditions ELSE << where >>

\* the values of a field in rows, as a set
ValuesOf(rows, field) == { Get(rows[k], field) : k \in DOMAIN rows }

\* C11: when the owner has sessions, every relation table that declares
\* sessions as a source and is queried is queried with a membership condition
\* for that relation whose values are exactly the ids of the exported sessions.
C11_SessionsFilter ==
  ("sessions" \in DOMAIN result /\ Len(result["sessions"]) > 0) =>
    \A r \in RelationNames \cap DOMAIN issued :
      \A i \in DOMAIN RelationConfig(r).relations :
        RelationConfig(r).relations[i].sourceTable = "sessions" =>
          LET c == Conditions(issued[r])[i]
          IN /\ c.op = "inArray"
             /\ { c.values[k] : k \in DOMAIN c.values } = ValuesOf(result["sessions"], "id")

\* C12: the filter of every relation query is the AND of one membership
\* condition per declared relation, each requiring the local field of the
\* relation to be among the values of its source field (by default id) in the
\* rows exported for its source table; a single relation gives that condition.
C12_FilterIsConjunction ==
  \A r \in RelationNames \cap DOMAIN issued :
    LET relations == RelationConfig(r).relations
        where == issued[r]
    IN /\ (Len(relations) = 1) = (where.op = "inArray")
       /\ (Len(relations) # 1) = (where.op = "and")
       /\ Len(Conditions(where)) = Len(relations)
       /\ \A i \in DOMAIN relations :
            LET c == Conditions(where)[i]
                sourceField == IF "sourceField" \in DOMAIN relations[i]
                               THEN relations[i].sourceField ELSE "id"
            IN /\ c.op = "inArray"
               /\ "field" \in DOMAIN relations[i]
               /\ c.column = relations[i].field
               /\ { c.values[k] : k \in DOMAIN c.values } =
                    ValuesOf(result[relations[i].sourceTable], sourceField)
               /\ Undefined \notin ValuesOf(result[relations[i].sourceTable], sourceField)

\* C13: every relation of every relation table declares a local field and a
\* source table, so every membership condition of a relation query constrains
\* a defined column.
C13_EveryRelationHasField ==
  \A r \in RelationNames \cap DOMAIN issued :
    /\ \A i \in DOMAIN RelationConfig(r).relations :
         {"field", "sourceTable"} \subseteq DOMAIN RelationConfig(r).relations[i]
    /\ \A i \in DOMAIN Conditions(issued[r]) : Conditions(issued[r])[i].column # Undefined


(***************************************************************************)
(* Properties of the result mapping across the two phases.                 *)
(***************************************************************************)
\* the tables some relation names as its source
SourcesOf(r) ==
  { RelationConfig(r).relations[i].sourceTable : i \in DOMAIN RelationConfig(r).relations }

SourceTables == UNION { SourcesOf(r) : r \in RelationNames }

C14_SourcesState ==
  /\ SourceTables \subseteq BaseNames
  /\ SourceTables \cap RelationNames = {}
  /\ \A r \in RelationNames :
       pc[r] \notin {"pending", "launched", "abandoned"} => SourcesOf(r) \subseteq DOMAIN result

\* C14: every source table of every relation is a base table, none a relation
\* table; so when the mapper of a relation table has looked at its sources,
\* the exported set of each is stored, and once stored it never changes.
C14_SourcesAreStored ==
  /\ []C14_SourcesState
  /\ [][\A b \in SourceTables \cap DOMAIN result :
          b \in DOMAIN result' /\ result'[b] = result[b]]_vars

\* C14 witness: messagesFiles is being queried over the stored rows of its
\* two sources.
C14_Witness ==
  /\ pc["messagesFiles"] = "inflight"
  /\ SourcesOf("messagesFiles") = {"messages", "files"}
  /\ Len(result["messages"]) = 1 /\ Len(result["files"]) = 1

\* the tables a forEach over the results of pMap writes, and how often
Written == { pmapResult[i].table : i \in DOMAIN pmapResult }
Writes(t) == Cardinality({ i \in DOMAIN pmapResult : pmapResult[i].table = t })

C15_KeysState ==
  /\ BaseNames \cap RelationNames = {}
  /\ Cardinality(BaseNames) = Len(baseTables)
  /\ Cardinality(RelationNames) = Len(relationTables)
  /\ DOMAIN result \in { {}, BaseNames, BaseNames \cup RelationNames }

\* C15: base and relation names are disjoint; the result changes only at the
\* end of a phase, which then writes each of its own tables once and nothing
\* else: phase 1 the base tables into the empty mapping, phase 2 the relation
\* tables, leaving every key of phase 1 as it was.
C15_KeysWrittenOnce ==
  /\ []C15_KeysState
  /\ [][result' # result =>
          /\ \A t \in Written : Writes(t) = 1
          /\ DOMAIN result' = DOMAIN result \cup Written
          /\ DOMAIN result \cap Written = {}
          /\ \A t \in DOMAIN result : result'[t] = result[t]
          /\ \/ exportPc = "base" /\ exportPc' = "relation"
                /\ DOMAIN result = {} /\ Written = BaseNames
             \/ exportPc = "relation" /\ exportPc' = "returned"
                /\ DOMAIN result = BaseNames /\ Written = RelationNames]_vars

\* C15 witness: both phases have written their keys.
C15_Witness ==
  /\ exportPc = "returned"
  /\ DOMAIN result = BaseNames \cup RelationNames
  /\ Written = RelationNames
  /\ Len(result["sessions"]) = 2 /\ Len(result["filesToSessions"]) = 1

\* C16: the rows stored for a relation table whose query succeeded are the
\* rows the query returned, userId included, and its filter holds membership
\* conditions only, one per relation: no condition on the owner.
C16_RelationRowsKept ==
  \A r \in RelationNames \cap DOMAIN issued :
    /\ Len(Conditions(issued[r])) = Len(RelationConfig(r).relations)
    /\ \A i \in DOMAIN Conditions(issued[r]) : Conditions(issued[r])[i].op = "inArray"
    /\ (exportPc = "returned" /\ r \notin faulty) =>
         /\ result[r] = findMany(r, issued[r])
         /\ \A k \in DOMAIN result[r] :
              DOMAIN result[r][k] = DOMAIN db[r][1] /\ "userId" \in DOMAIN result[r][k]

\* C16 witness: messagesFiles was exported with its one matching row, which
\* still carries userId.
C16_Witness ==
  /\ exportPc = "returned"
  /\ Len(result["messagesFiles"]) = 1
  /\ result["messagesFiles"][1] =
       [messageId |-> "1", fileId |-> "1", userId |-> UserId]

(***************************************************************************)
(* The export computed one table after the other, with no interleaving:    *)
(* a function of the registry, the rows and the faulty tables alone.       *)
(***************************************************************************)
SequentialBase ==
  [ t \in BaseNames |->
      LET outcome == queryBaseTables(BaseConfig(t))
      IN IF outcome.kind = "query" /\ t \notin faulty
         THEN queryBaseTablesResult(findMany(t, outcome.where))
         ELSE <<>> ]

SequentialExport ==
  [ t \in Tables |->
      IF t \in BaseNames THEN SequentialBase[t]
      ELSE LET outcome == relationMapper(RelationConfig(t), SequentialBase)
           IN IF outcome.kind = "query" /\ t \notin faulty
              THEN queryTableResult(RelationConfig(t), findMany(t, outcome.where))
              ELSE <<>> ]

\* C17: for given database contents and given per-table query outcomes, the
\* mapping export() returns is the one the tables yield when handled one after
\* the other: it depends neither on the concurrency limit nor on the order in
\* which the queries in flight complete.
C17_ResultIsDeterministic ==
  exportPc = "returned" => result = SequentialExport

\* C17 witness: an export with two mappers at a time has returned rows of base
\* and of relation tables.
C17_Witness ==
  /\ exportPc = "returned"
  /\ concurrency = 2
  /\ result = SequentialExport
  /\ Len(result["sessions"]) = 2
  /\ Len(result["filesToSessions"]) = 1

\* the relation tables that name b as a source
DependentsOf(b) == { r \in RelationNames : b \in SourcesOf(r) }

\* C18: a base table whose query fails is stored as [], so every relation
\* table that names it as a source is exported empty and no query is ever
\* issued for it, whatever rows the owner has there.
C18_FailedSourceSkips ==
  \A b \in BaseNames \cap faulty :
    /\ b \in DOMAIN result => result[b] = <<>>
    /\ \A r \in DependentsOf(b) :
         /\ r \notin DOMAIN issued
         /\ pc[r] \notin {"inflight", "caught"}
         /\ r \in DOMAIN ret => ret[r] = <<>>
         /\ r \in DOMAIN result => result[r] = <<>>

\* C18 witness: the query of sessions failed, the owner has a row in
\* filesToSessions, and the export returned it empty without a query.
C18_Witness ==
  /\ exportPc = "returned"
  /\ faulty = {"sessions"}
  /\ "sessions" \in DOMAIN issued
  /\ \E k \in DOMAIN db["filesToSessions"] : db["filesToSessions"][k].userId = UserId
  /\ "filesToSessions" \notin DOMAIN issued
  /\ result["filesToSessions"] = <<>>

\* something of onOk happens in a step: an operation is invoked or finishes,
\* a store changes, the success notification is shown
OnOkActs == stores' # stores \/ (trace' # trace /\ trace' # <<>>)

\* C19: pressing the clear button only opens the confirmation; while it is
\* open nothing has been invoked; onOk starts only from the open confirmation;
\* dismissing it invokes nothing and shows nothing, and nothing happens until
\* the button is pressed again.
C19_NoClearBeforeConfirm ==
  /\ [](dialog = "open" => (trace = <<>> /\ step = 0))
  /\ [][dialog = "closed" => (dialog' = "open" /\ ~OnOkActs /\ trace' = <<>>)]_<<clearVars>>
  /\ [][(dialog = "open" /\ dialog' # "running") =>
          (dialog' = "closed" /\ ~OnOkActs /\ trace' = <<>> /\ step' = 0)]_<<clearVars>>
  /\ [][dialog' = "running" => dialog \in {"open", "running"}]_vars
  /\ [][OnOkActs => (dialog' = "running" \/ dialog = "running")]_vars

\* C19 witness: the button was pressed, the confirmation dismissed, and every
\* store is still full with nothing invoked or shown.
C19_Witness ==
  /\ dialog = "closed"
  /\ clicks = 1
  /\ trace = <<>>
  /\ step = 0
  /\ \A k \in DOMAIN stores : stores[k]

\* what a handled table has gone through: one query, or one return without
\* a query, never both
HandledOnce(t) ==
  /\ pc[t] = "settled"
  /\ (t \in DOMAIN issued) # (t \in DOMAIN ret)

\* C20: when every configured table is registered and every query settles,
\* an export that was started returns, for each concurrency limit, with every
\* table handled once (queried or skipped); a table that was handled is never
\* handled again.
C20_ExportTerminates ==
  /\ (EXPORT_TABLES = Tables /\ exportPc = "base") ~>
       (exportPc = "returned" /\ \A t \in Tables : HandledOnce(t))
  /\ [][\A t \in Tables :
          /\ (t \in DOMAIN issued => t \in DOMAIN issued' /\ t \notin DOMAIN ret')
          /\ (t \in DOMAIN ret => t \in DOMAIN ret' /\ t \notin DOMAIN issued')
          /\ (pc[t] = "settled" => pc'[t] = "settled")]_vars

\* C20 witness: with every table registered, sessions empty and one mapper at
\* a time, the export returned, some tables queried and some skipped.
C20_Witness ==
  /\ EXPORT_TABLES = Tables
  /\ exportPc = "returned"
  /\ concurrency = 1
  /\ \A t \in Tables : HandledOnce(t)
  /\ "filesToSessions" \in DOMAIN ret
  /\ "messagesFiles" \in DOMAIN issued

====
